---- MODULE Spec2Model ----
(***************************************************************************)
(* Model of fetch_bulk_JGI.py: per query, the search response is parsed    *)
(* into a manifest, filtered by include/exclude globs, optionally refined  *)
(* to the newest detected Phytozome version, purged files are restored by  *)
(* a poll loop, and the selection is downloaded.                           *)
(*                                                                         *)
(* Strings that the code inspects character by character (file names and   *)
(* globs) are sequences of one-character strings.  An optional integer     *)
(* (the detected version; "" in the manifest when absent) is the empty     *)
(* sequence or a one-element sequence.  A Python dict, which keeps         *)
(* insertion order, is a sequence of <<key, value>> pairs.                 *)
(***************************************************************************)
EXTENDS Integers, Sequences, FiniteSets, TLC

\* ------------------------------------------------------------------ bounds
MaxFiles == 2
MaxQueries == 2
MaxPoll == 2
MaxWait == 3
\* cap on the status queries of one query: with poll_seconds = 0 the loop of
\* ensure_restored never times out
MaxStatusQueries == 5

\* ------------------------------------------------------------ input values
OrgIds == {"d1", "d2"}
FileIds == {"f1", "f2"}
FileNames == {<<"a">>, <<"a", "b">>}
RawFileStatuses == {"Purged", "LIVE"}
Versions == {<<>>, <<12>>, <<13>>}

GlobLists == {<<>>, <<<<"?">>>>, <<<<"*", "b">>>>, <<<<"?">>, <<"*", "b">>>>}

RawStatuses == {"PENDING", "ready", "READY", "EXPIRED", ""}

\* str.upper() on the tokens the model uses
Upper(s) ==
  CASE s = "Purged" -> "PURGED"
    [] s = "ready" -> "READY"
    [] OTHER -> s

\* ------------------------------------------------------- filtering helpers
RECURSIVE fnmatch(_, _)
fnmatch(name, pat) ==
  IF pat = <<>> THEN name = <<>>
  ELSE IF Head(pat) = "*"
    THEN fnmatch(name, Tail(pat)) \/ (name # <<>> /\ fnmatch(Tail(name), pat))
  ELSE /\ name # <<>>
       /\ (Head(pat) = "?" \/ Head(pat) = Head(name))
       /\ fnmatch(Tail(name), Tail(pat))

matches_any_glob(filename, globs) ==
  \E i \in DOMAIN globs : fnmatch(filename, globs[i])

\* include/exclude selection where an include match is final
BaseSelectedIncludeWins(fname, include_globs, exclude_globs) ==
  IF include_globs # <<>> THEN matches_any_glob(fname, include_globs)
  ELSE ~ (exclude_globs # <<>> /\ matches_any_glob(fname, exclude_globs))

\* include/exclude selection of parse_search
BaseSelected(fname, include_globs, exclude_globs) ==
  LET s1 == IF include_globs # <<>> THEN matches_any_glob(fname, include_globs) ELSE TRUE
  IN IF s1 /\ exclude_globs # <<>> /\ matches_any_glob(fname, exclude_globs)
       THEN FALSE ELSE s1

\* ------------------------------------------------------------ dict helpers
HasKey(d, k) == \E i \in DOMAIN d : d[i][1] = k

\* d.setdefault(k, []).append(x)
SetDefaultAppend(d, k, x) ==
  IF HasKey(d, k)
    THEN [i \in DOMAIN d |-> IF d[i][1] = k THEN <<k, Append(d[i][2], x)>> ELSE d[i]]
    ELSE Append(d, <<k, <<x>>>>)

\* a dedup that keeps the repeats
dedupKeepsAll(xs) == xs

RECURSIVE dedupFrom(_, _)
dedupFrom(xs, out) ==
  IF xs = <<>> THEN out
  ELSE IF \E i \in DOMAIN out : out[i] = Head(xs)
    THEN dedupFrom(Tail(xs), out)
    ELSE dedupFrom(Tail(xs), Append(out, Head(xs)))

dedup(xs) == dedupFrom(xs, <<>>)

DedupValues(d) == [i \in DOMAIN d |-> <<d[i][1], dedup(d[i][2])>>]

\* ------------------------------------------------------------ parse_search
ManifestRow(f, selected) ==
  [dataset_id |-> f.org_id,
   file_id |-> f._id,
   file_name |-> f.file_name,
   file_status |-> Upper(f.file_status),
   phytozome_version |-> f.pver,
   selected |-> selected]

RECURSIVE ParseFiles(_, _, _, _)
ParseFiles(files, include_globs, exclude_globs, acc) ==
  IF files = <<>> THEN acc
  ELSE
    LET f == Head(files)
        selected == BaseSelected(f.file_name, include_globs, exclude_globs)
        row == ManifestRow(f, selected)
        ids == IF selected THEN SetDefaultAppend(acc.ids, f.org_id, f._id) ELSE acc.ids
        purged == IF selected /\ row.file_status = "PURGED"
                    THEN SetDefaultAppend(acc.purged, f.org_id, f._id)
                    ELSE acc.purged
    IN IF f.org_id = "" \/ f._id = "" \/ f.file_name = <<>>
         THEN ParseFiles(Tail(files), include_globs, exclude_globs, acc)
         ELSE ParseFiles(Tail(files), include_globs, exclude_globs,
                         [rows |-> Append(acc.rows, row), ids |-> ids, purged |-> purged])

parse_search(search_json, include_globs, exclude_globs) ==
  LET r == ParseFiles(search_json, include_globs, exclude_globs,
                      [rows |-> <<>>, ids |-> <<>>, purged |-> <<>>])
  IN [rows |-> r.rows, ids |-> DedupValues(r.ids), purged |-> DedupValues(r.purged)]

\* -------------------------------------------------------- apply_latest_only
Max(S) == CHOOSE x \in S : \A y \in S : y <= x

SelectedVersions(rows) ==
  {rows[i].phytozome_version[1] :
     i \in {j \in DOMAIN rows : rows[j].selected /\ rows[j].phytozome_version # <<>>}}

\* a refinement that keeps the selected rows without a detected version
apply_latest_only_lenient(rows) ==
  IF SelectedVersions(rows) = {} THEN rows
  ELSE
    LET max_ver == Max(SelectedVersions(rows))
    IN [i \in DOMAIN rows |->
          IF ~rows[i].selected \/ rows[i].phytozome_version = <<>> THEN rows[i]
          ELSE IF rows[i].phytozome_version[1] # max_ver
            THEN [rows[i] EXCEPT !.selected = FALSE]
          ELSE rows[i]]

apply_latest_only(rows) ==
  IF SelectedVersions(rows) = {} THEN rows
  ELSE
    LET max_ver == Max(SelectedVersions(rows))
    IN [i \in DOMAIN rows |->
          IF ~rows[i].selected THEN rows[i]
          ELSE IF rows[i].phytozome_version = <<>>
            THEN [rows[i] EXCEPT !.selected = FALSE]
          ELSE IF rows[i].phytozome_version[1] # max_ver
            THEN [rows[i] EXCEPT !.selected = FALSE]
          ELSE rows[i]]

\* ---------------------------------------------------- rebuild_selected_maps
RECURSIVE RebuildFrom(_, _)
RebuildFrom(rows, acc) ==
  IF rows = <<>> THEN acc
  ELSE
    LET r == Head(rows)
    IN IF ~r.selected THEN RebuildFrom(Tail(rows), acc)
       ELSE RebuildFrom(Tail(rows),
              [ids |-> SetDefaultAppend(acc.ids, r.dataset_id, r.file_id),
               purged |-> IF r.file_status = "PURGED"
                            THEN SetDefaultAppend(acc.purged, r.dataset_id, r.file_id)
                            ELSE acc.purged])

rebuild_selected_maps(rows) ==
  LET r == RebuildFrom(rows, [ids |-> <<>>, purged |-> <<>>])
  IN [ids |-> DedupValues(r.ids), purged |-> DedupValues(r.purged)]

\* ------------------------------------------------------------------- state
VARIABLES
  include_globs,          \* args.include
  exclude_globs,          \* args.exclude
  latest_only,            \* args.latest_only
  poll_seconds,           \* args.poll_seconds
  max_wait_seconds,       \* args.max_wait_seconds
  n_queries,              \* len(queries)
  archive,                \* the file objects the remote search API can return
  qi,                     \* index of the query the for loop is at
  pc,                     \* position in main / ensure_restored
  manifest_rows,
  base_rows,              \* the rows as parse_search returned them
  selected_ids_by_ds,
  selected_purged_by_ds,
  status_url,             \* ensure_restored: the status URL of the restore response
  waited,                 \* ensure_restored: accumulated wait
  status,                 \* ensure_restored: last status read
  polled,                 \* the statuses read by this query, in order
  status_queries,         \* number of status GETs of this query
  sleeps,                 \* number of time.sleep calls of this query
  restore_requests,       \* restore payloads POSTed by this query
  download_requests,      \* download payloads POSTed by this query
  started,                \* queries whose processing began
  warnings,               \* queries that printed "latest-only had no effect"
  error                   \* the exception that ended the run

config == <<include_globs, exclude_globs, latest_only, poll_seconds,
            max_wait_seconds, n_queries, archive>>
selection == <<manifest_rows, base_rows, selected_ids_by_ds, selected_purged_by_ds>>
restore == <<status_url, waited, status, polled, status_queries, sleeps, restore_requests>>
vars == <<config, qi, pc, selection, restore, download_requests, started, warnings, error>>

FileObjects ==
  [org_id : OrgIds, _id : FileIds, file_name : FileNames,
   file_status : RawFileStatuses, pver : Versions]

\* the "files" of a search response, each with the id of its organism
SearchResponses(objects) ==
  UNION {[1..n -> objects] : n \in 0..MaxFiles}

\* the archive of the pipeline runs: two datasets, repeated file ids, purged
\* and live files, an older and a newer release
PipelineArchive ==
  {f \in FileObjects :
     \/ f.file_name = <<"a">> /\ f.pver = <<12>>
     \/ f.file_name = <<"a", "b">> /\ f.pver = <<13>>}

\* the archive of the selection runs: every file name with every version
SelectionArchive ==
  {f \in FileObjects : f.org_id = "d1" /\ f._id = "f1"}

\* the archive of the restore runs: a purged file, a live file, and a file
\* object without _id
RestoreArchive ==
  {[org_id |-> "d1", _id |-> "f1", file_name |-> <<"a">>, file_status |-> "Purged", pver |-> <<>>],
   [org_id |-> "d1", _id |-> "f2", file_name |-> <<"a">>, file_status |-> "LIVE", pver |-> <<13>>],
   [org_id |-> "d2", _id |-> "", file_name |-> <<"a">>, file_status |-> "Purged", pver |-> <<>>]}

\* exceptions: the class and what raised it
NoError == [type |-> "", at |-> ""]
TransportError == [type |-> "URLError", at |-> "urlopen"]
MissingStatusUrl == [type |-> "RuntimeError", at |-> "status_url"]
RestoreExpired == [type |-> "RuntimeError", at |-> "expired"]
RestoreTimeout == [type |-> "TimeoutError", at |-> "waited"]

RunInit ==
  /\ qi = 1
  /\ pc = "fetch"
  /\ manifest_rows = <<>>
  /\ base_rows = <<>>
  /\ selected_ids_by_ds = <<>>
  /\ selected_purged_by_ds = <<>>
  /\ status_url = ""
  /\ waited = 0
  /\ status = ""
  /\ polled = <<>>
  /\ status_queries = 0
  /\ sleeps = 0
  /\ restore_requests = <<>>
  /\ download_requests = <<>>
  /\ started = {}
  /\ warnings = {}
  /\ error = NoError

\* a batch of queries run through the whole pipeline
Init ==
  /\ include_globs = <<>>
  /\ exclude_globs \in {<<>>, <<<<"*", "b">>>>}
  /\ latest_only \in BOOLEAN
  /\ poll_seconds = 1
  /\ max_wait_seconds = 2
  /\ n_queries \in 1..MaxQueries
  /\ archive = PipelineArchive
  /\ RunInit

\* one query, every combination of include and exclude globs
SelectionInit ==
  /\ include_globs \in GlobLists
  /\ exclude_globs \in GlobLists
  /\ latest_only \in BOOLEAN
  /\ poll_seconds = 1
  /\ max_wait_seconds = 1
  /\ n_queries = 1
  /\ archive = SelectionArchive
  /\ RunInit

\* one query, every poll interval and wait budget
RestoreInit ==
  /\ include_globs = <<>>
  /\ exclude_globs = <<>>
  /\ latest_only \in BOOLEAN
  /\ poll_seconds \in 0..MaxPoll
  /\ max_wait_seconds \in 0..MaxWait
  /\ n_queries = 1
  /\ archive = RestoreArchive
  /\ RunInit

\* an uncaught exception leaves main: the run ends
Raise(exc) ==
  /\ pc' = "aborted"
  /\ error' = exc

\* the for loop moves to the next query; the names of the finished iteration
\* are rebound before they are read again
NextQuery ==
  /\ qi' = qi + 1
  /\ pc' = IF qi < n_queries THEN "fetch" ELSE "done"
  /\ manifest_rows' = <<>>
  /\ base_rows' = <<>>
  /\ selected_ids_by_ds' = <<>>
  /\ selected_purged_by_ds' = <<>>
  /\ status_url' = ""
  /\ waited' = 0
  /\ status' = ""
  /\ polled' = <<>>
  /\ status_queries' = 0
  /\ sleeps' = 0
  /\ restore_requests' = <<>>
  /\ download_requests' = <<>>

\* main, steps 1 and 2: GET the search JSON, parse_search
FetchSearch ==
  /\ pc = "fetch"
  /\ started' = started \cup {qi}
  /\ \/ /\ Raise(TransportError)
        /\ UNCHANGED <<config, qi, selection, restore, download_requests, warnings>>
     \/ \E search_json \in SearchResponses(archive) :
          LET p == parse_search(search_json, include_globs, exclude_globs)
          IN /\ manifest_rows' = p.rows
             /\ base_rows' = p.rows
             /\ selected_ids_by_ds' = p.ids
             /\ selected_purged_by_ds' = p.purged
             /\ pc' = IF latest_only THEN "refine" ELSE "report"
             /\ UNCHANGED <<config, qi, restore, download_requests, warnings, error>>

\* main, step 3: apply_latest_only, rebuild_selected_maps
LatestOnly ==
  /\ pc = "refine"
  /\ LET rows == apply_latest_only(manifest_rows)
         m == rebuild_selected_maps(rows)
     IN /\ manifest_rows' = rows
        /\ selected_ids_by_ds' = m.ids
        /\ selected_purged_by_ds' = m.purged
  /\ pc' = "report"
  /\ UNCHANGED <<config, qi, base_rows, restore, download_requests, started, warnings, error>>

n_selected(rows) == Cardinality({i \in DOMAIN rows : rows[i].selected})

\* a warning printed only when nothing at all is selected
NoEffectWarningWhenEmpty(rows) == latest_only /\ n_selected(rows) = 0

\* main: whether the "latest-only had no effect" warning is printed
NoEffectWarning(rows) == latest_only /\ SelectedVersions(rows) = {}

\* main: the manifest is written and the summary printed
Report ==
  /\ pc = "report"
  /\ warnings' = IF NoEffectWarning(manifest_rows) THEN warnings \cup {qi} ELSE warnings
  /\ pc' = IF n_selected(manifest_rows) = 0 THEN "skip" ELSE "restore"
  /\ UNCHANGED <<config, qi, selection, restore, download_requests, started, error>>

\* main: a query with no selected file is skipped
Skip ==
  /\ pc = "skip"
  /\ NextQuery
  /\ UNCHANGED <<config, started, warnings, error>>

\* ensure_restored up to the poll loop: the restore POST and its response
RequestRestore ==
  /\ pc = "restore"
  /\ IF selected_purged_by_ds = <<>>
       THEN /\ pc' = "download"
            /\ UNCHANGED <<restore, error>>
       ELSE /\ restore_requests' = Append(restore_requests, selected_purged_by_ds)
            /\ \/ /\ Raise(TransportError)
                  /\ UNCHANGED status_url
               \/ /\ Raise(MissingStatusUrl)
                  /\ UNCHANGED status_url
               \/ /\ status_url' = "url"
                  /\ pc' = "poll"
                  /\ UNCHANGED error
            /\ UNCHANGED <<waited, status, polled, status_queries, sleeps>>
  /\ UNCHANGED <<config, qi, selection, download_requests, started, warnings>>

\* a loop that also leaves on EXPIRED as if the files were restored
IsReadyOrExpired(st) == st \in {"READY", "EXPIRED"}

IsReady(st) == st = "READY"

\* a loop that takes EXPIRED for one more pending status
IsExpiredNever(st) == FALSE

IsExpired(st) == st = "EXPIRED"

\* waited = poll_seconds
AccumulateAssigns(w) == poll_seconds

\* waited is left as it is
AccumulateNothing(w) == w

\* waited += poll_seconds
Accumulate(w) == w + poll_seconds

\* waited > max_wait_seconds
TimedOutStrict(w) == w > max_wait_seconds

TimedOut(w) == w >= max_wait_seconds

\* one iteration of the poll loop of ensure_restored
Poll ==
  /\ pc = "poll"
  /\ status_queries < MaxStatusQueries
  /\ status_queries' = status_queries + 1
  /\ \/ /\ Raise(TransportError)
        /\ UNCHANGED <<status, polled, waited, sleeps>>
     \/ \E raw \in RawStatuses :
          /\ status' = Upper(raw)
          /\ polled' = Append(polled, status')
          /\ IF IsReady(status')
               THEN /\ pc' = "download"
                    /\ UNCHANGED <<waited, sleeps, error>>
             ELSE IF IsExpired(status')
               THEN /\ Raise(RestoreExpired)
                    /\ UNCHANGED <<waited, sleeps>>
             ELSE /\ sleeps' = sleeps + 1
                  /\ waited' = Accumulate(waited)
                  /\ IF TimedOut(waited')
                       THEN Raise(RestoreTimeout)
                       ELSE UNCHANGED <<pc, error>>
  /\ UNCHANGED <<config, qi, selection, status_url, restore_requests, download_requests,
                 started, warnings>>

\* download_selected: the download POST
Download ==
  /\ pc = "download"
  /\ download_requests' = Append(download_requests, selected_ids_by_ds)
  /\ \/ Raise(TransportError)
     \/ /\ pc' = "unzip"
        /\ UNCHANGED error
  /\ UNCHANGED <<config, qi, selection, restore, started, warnings>>

\* unzip, removal of the zip, and the end of the loop body
Unzip ==
  /\ pc = "unzip"
  /\ NextQuery
  /\ UNCHANGED <<config, started, warnings, error>>

Next ==
  \/ FetchSearch
  \/ LatestOnly
  \/ Report
  \/ Skip
  \/ RequestRestore
  \/ Poll
  \/ Download
  \/ Unzip

Spec == Init /\ [][Next]_vars

SelectionSpec == SelectionInit /\ [][Next]_vars

RestoreSpec == RestoreInit /\ [][Next]_vars

\* main runs to completion: a step that can be taken is eventually taken
FairRestoreSpec == RestoreInit /\ [][Next]_vars /\ WF_vars(Next)

\* ------------------------------------------------------------------ claims
HasVersion(r) == r.phytozome_version # <<>>

\* positions of main after the summary of the current query was printed
Reported == {"skip", "restore", "poll", "download", "unzip"}

\* C6: after the base filtering of parse_search a record is selected if and
\* only if (the include list is empty or its file name matches at least one
\* include glob) and its file name matches no exclude glob.
C6_BaseFiltering ==
  \A i \in DOMAIN base_rows :
    base_rows[i].selected <=>
      /\ \/ include_globs = <<>>
         \/ \E g \in DOMAIN include_globs : fnmatch(base_rows[i].file_name, include_globs[g])
      /\ ~ \E g \in DOMAIN exclude_globs : fnmatch(base_rows[i].file_name, exclude_globs[g])

\* a parsed record whose name matches an include glob and an exclude glob
C6_Witness ==
  \E i \in DOMAIN base_rows :
    /\ ~base_rows[i].selected
    /\ \E g \in DOMAIN include_globs : fnmatch(base_rows[i].file_name, include_globs[g])
    /\ \E g \in DOMAIN exclude_globs : fnmatch(base_rows[i].file_name, exclude_globs[g])

\* C4: when a selected record has a detected version, after apply_latest_only
\* a record is selected if and only if it was selected before and its
\* detected version is the maximum detected version of the previously
\* selected records; nothing else of the manifest changes.
C4_LatestOnly ==
  (latest_only /\ pc # "refine"
     /\ \E j \in DOMAIN base_rows : base_rows[j].selected /\ HasVersion(base_rows[j]))
  =>
    /\ DOMAIN manifest_rows = DOMAIN base_rows
    /\ \A i \in DOMAIN base_rows :
         /\ manifest_rows[i].selected <=>
              /\ base_rows[i].selected
              /\ HasVersion(base_rows[i])
              /\ \A j \in DOMAIN base_rows :
                   (base_rows[j].selected /\ HasVersion(base_rows[j]))
                     => base_rows[j].phytozome_version[1] <= base_rows[i].phytozome_version[1]
         /\ [manifest_rows[i] EXCEPT !.selected = TRUE] = [base_rows[i] EXCEPT !.selected = TRUE]

\* the refinement deselected a record without a version and kept one with
\* a version
C4_Witness ==
  /\ latest_only
  /\ pc = "report"
  /\ \E i, j \in DOMAIN base_rows :
       /\ base_rows[i].selected /\ ~HasVersion(base_rows[i]) /\ ~manifest_rows[i].selected
       /\ base_rows[j].selected /\ HasVersion(base_rows[j]) /\ manifest_rows[j].selected

\* C5: when latest-only is requested and no selected record has a detected
\* version, apply_latest_only changes no selected flag and the warning is
\* printed; the warning is never printed for a query whose refinement
\* deselected a record.
C5_NoEffect ==
  /\ (latest_only /\ pc # "refine"
        /\ ~ \E j \in DOMAIN base_rows : base_rows[j].selected /\ HasVersion(base_rows[j]))
       => manifest_rows = base_rows
  /\ (latest_only /\ pc \in Reported
        /\ ~ \E j \in DOMAIN base_rows : base_rows[j].selected /\ HasVersion(base_rows[j]))
       => qi \in warnings
  /\ (qi \in warnings)
       => /\ latest_only
          /\ \A i \in DOMAIN base_rows : manifest_rows[i].selected = base_rows[i].selected

\* the warning was printed for a query that keeps selected records
C5_Witness ==
  /\ pc = "restore"
  /\ qi \in warnings
  /\ \E i \in DOMAIN manifest_rows : manifest_rows[i].selected

\* a status that keeps the poll loop going
Pending(st) == st \notin {"READY", "EXPIRED"}

AllPending(n) == \A i \in 1..n : Pending(polled[i])

\* the restore step of the current query returned normally
RestoreReturned == pc \in {"download", "unzip"} \/ download_requests # <<>>

\* C1: n pending statuses followed by READY, with n * poll_seconds below
\* max_wait_seconds, end ensure_restored in success after exactly n sleeps,
\* an accumulated wait of n * poll_seconds and n + 1 status queries; and the
\* n pending statuses alone do not time out.
C1_PendingThenReady ==
  \A n \in 0..MaxStatusQueries :
    (n <= Len(polled) /\ AllPending(n) /\ n * poll_seconds < max_wait_seconds)
    =>
      /\ (Len(polled) = n + 1 /\ polled[n + 1] = "READY")
           => /\ RestoreReturned
              /\ error \in {NoError, TransportError}
              /\ sleeps = n
              /\ waited = n * poll_seconds
              /\ status_queries = n + 1
      /\ (Len(polled) = n) => error # RestoreTimeout

\* PENDING, PENDING, READY: success after 2 poll intervals
C1_Witness ==
  /\ polled = <<"PENDING", "PENDING", "READY">>
  /\ pc = "download"
  /\ sleeps = 2
  /\ waited = 2 * poll_seconds
  /\ poll_seconds >= 1

\* C2: once a status query returned EXPIRED the run has ended in the expired
\* failure: EXPIRED is the last status read, no status query, sleep, restore
\* request or download request followed it, and the exception is not the one
\* of the timeout.
C2_Expired ==
  (\E i \in DOMAIN polled : polled[i] = "EXPIRED")
  =>
    /\ pc = "aborted"
    /\ error = RestoreExpired
    /\ error.type # RestoreTimeout.type
    /\ polled[Len(polled)] = "EXPIRED"
    /\ AllPending(Len(polled) - 1)
    /\ status_queries = Len(polled)
    /\ sleeps = Len(polled) - 1
    /\ Len(restore_requests) = 1
    /\ download_requests = <<>>

\* EXPIRED after a pending poll
C2_Witness ==
  /\ Len(polled) = 2
  /\ Pending(polled[1])
  /\ polled[2] = "EXPIRED"
  /\ pc = "aborted"
  /\ max_wait_seconds > poll_seconds

\* C3 as stated: ensure_restored never ends in READY or EXPIRED once the
\* accumulated wait is at least max_wait_seconds.
C3_NoTerminalStatusPastBudget ==
  (polled # <<>> /\ ~Pending(polled[Len(polled)])) => waited < max_wait_seconds

C3_Safety ==
  /\ waited = sleeps * poll_seconds
  /\ (sleeps >= 1 /\ polled # <<>> /\ ~Pending(polled[Len(polled)]))
       => waited < max_wait_seconds
  /\ (sleeps >= 1 /\ waited >= max_wait_seconds)
       => /\ pc = "aborted"
          /\ error = RestoreTimeout
          /\ AllPending(Len(polled))
          /\ download_requests = <<>>

\* C3, amended: once a poll interval has been slept and the accumulated wait
\* (the sum of the intervals slept) is at least max_wait_seconds, the run has
\* ended in the timeout failure and never in READY or EXPIRED; with
\* poll_seconds >= 1 the poll loop is always left, so a sequence that stays
\* pending ends in the timeout.
C3_TimeoutAfterSleep ==
  /\ []C3_Safety
  /\ ((pc = "poll" /\ poll_seconds >= 1 /\ AllPending(Len(polled))) ~> (pc # "poll"))

\* three pending statuses used up the wait budget
C3_Witness ==
  /\ error = RestoreTimeout
  /\ Len(polled) = 3
  /\ AllPending(3)
  /\ waited >= max_wait_seconds

CeilDiv(a, b) == (a + b - 1) \div b

C10_Safety ==
  poll_seconds >= 1 =>
    /\ status_queries <= Max({1, CeilDiv(max_wait_seconds, poll_seconds)})
    /\ (status_url # "" /\ pc # "poll") => status_queries >= 1
    /\ (polled = <<"READY">>) => RestoreReturned
    /\ (error = RestoreTimeout)
         => \E k \in 1..(max_wait_seconds + 1) :
              /\ waited = k * poll_seconds
              /\ waited >= max_wait_seconds
              /\ \A j \in 1..(k - 1) : j * poll_seconds < max_wait_seconds

\* C10: with poll_seconds >= 1 the poll loop is left after at most
\* max(1, ceil(max_wait_seconds / poll_seconds)) status queries, at least one
\* status query is made, READY at the first query succeeds whatever
\* max_wait_seconds is, and the wait at a timeout is the smallest positive
\* multiple of poll_seconds that is >= max_wait_seconds.
C10_Termination ==
  /\ []C10_Safety
  /\ ((pc = "poll" /\ poll_seconds >= 1) ~> (pc # "poll"))

\* READY at the first query with no wait budget at all
C10_Witness ==
  /\ max_wait_seconds = 0
  /\ poll_seconds >= 1
  /\ polled = <<"READY">>
  /\ pc = "download"

SelectedRows(rows) == {j \in DOMAIN rows : rows[j].selected}

SelectedPurgedRows(rows) == {j \in SelectedRows(rows) : rows[j].file_status = "PURGED"}

\* the first of the rows idx that carries file id fid in dataset ds
FirstSeen(rows, idx, ds, fid) ==
  CHOOSE j \in idx :
    /\ rows[j].dataset_id = ds /\ rows[j].file_id = fid
    /\ \A k \in idx : (rows[k].dataset_id = ds /\ rows[k].file_id = fid) => j <= k

\* payload lists, per dataset, the file ids of the rows idx once each, in
\* first-seen order, and names no other dataset
IsProjection(payload, rows, idx) ==
  /\ \A a, b \in DOMAIN payload : payload[a][1] = payload[b][1] => a = b
  /\ {payload[a][1] : a \in DOMAIN payload} = {rows[j].dataset_id : j \in idx}
  /\ \A a \in DOMAIN payload :
       LET ds == payload[a][1]
           fids == payload[a][2]
       IN /\ {fids[x] : x \in DOMAIN fids}
               = {rows[j].file_id : j \in {k \in idx : rows[k].dataset_id = ds}}
          /\ \A x, y \in DOMAIN fids : fids[x] = fids[y] => x = y
          /\ \A x, y \in DOMAIN fids :
               x < y => FirstSeen(rows, idx, ds, fids[x]) < FirstSeen(rows, idx, ds, fids[y])

\* C8: the id lists of the download request are the projection of the final
\* manifest on its selected rows, and those of the restore request the
\* projection on its selected PURGED rows.
C8_RequestsAreProjections ==
  /\ \A r \in DOMAIN download_requests :
       IsProjection(download_requests[r], manifest_rows, SelectedRows(manifest_rows))
  /\ \A r \in DOMAIN restore_requests :
       IsProjection(restore_requests[r], manifest_rows, SelectedPurgedRows(manifest_rows))

\* two files, release 12 LIVE and release 13 PURGED, latest-only: restore and
\* download name exactly the release 13 file
C8_Witness ==
  /\ latest_only
  /\ pc = "unzip"
  /\ Len(manifest_rows) = 2
  /\ manifest_rows[1].phytozome_version = <<12>> /\ manifest_rows[1].file_status = "LIVE"
  /\ ~manifest_rows[1].selected /\ base_rows[1].selected
  /\ manifest_rows[2].phytozome_version = <<13>> /\ manifest_rows[2].file_status = "PURGED"
  /\ manifest_rows[2].selected
  /\ restore_requests = << << <<manifest_rows[2].dataset_id, <<manifest_rows[2].file_id>> >> >> >>
  /\ download_requests = restore_requests

\* C9: a download request is sent only after the restore step succeeded:
\* either no selected file is PURGED and no restore request or status query
\* was made, or the one restore request got a status URL and the last status
\* read was READY; each query sends at most one restore and one download
\* request, and none after a missing status URL, EXPIRED or a timeout.
C9_DownloadAfterRestore ==
  /\ Len(restore_requests) <= 1
  /\ Len(download_requests) <= 1
  /\ (SelectedPurgedRows(manifest_rows) = {})
       => (restore_requests = <<>> /\ status_queries = 0)
  /\ (download_requests # <<>>)
       => \/ SelectedPurgedRows(manifest_rows) = {}
          \/ /\ Len(restore_requests) = 1
             /\ status_url # ""
             /\ polled # <<>>
             /\ polled[Len(polled)] = "READY"
  /\ (error \in {MissingStatusUrl, RestoreExpired, RestoreTimeout})
       => download_requests = <<>>

\* a download that followed a restore which was pending, then READY
C9_Witness ==
  /\ pc = "unzip"
  /\ Len(restore_requests) = 1
  /\ Len(download_requests) = 1
  /\ Len(polled) = 2
  /\ polled[2] = "READY"

\* C7: when a query fails, the queries after it are still started.
C7_LaterQueriesStarted ==
  (pc = "aborted") => \A q \in 1..n_queries : q \in started

====
